---- MODULE Spec2Model ----
(***************************************************************************)
(* The replication-state resolver of osm-diff-state-svc: findStateFile     *)
(* and the upstream replication server it reads.                           *)
(*                                                                         *)
(* One behaviour is one call of findStateFile.  The function is async:     *)
(* every action below is the code that runs from the resolution of one     *)
(* awaited fetchStateParam call up to the next awaited call (which it      *)
(* issues) or up to the return/throw.  fetchStateParam is seen here from   *)
(* its caller: it yields the requested field or null.                      *)
(*                                                                         *)
(* Timestamps are held as epoch seconds; Date parsing yields milliseconds  *)
(* (DateGetTime) and the code floors them back to seconds (Epoch).  The    *)
(* Date setters of lines 139-143 work in the zone of the process, which is *)
(* taken to be UTC.  The url of a result is getStateUrl of its             *)
(* sequenceNumber and is not stored.                                       *)
(***************************************************************************)
EXTENDS Integers, Sequences, FiniteSets, TLC

VARIABLES
    period,             \* argument `period`
    timestamp,          \* argument `timestamp`, as parsed: [ok, ms]
    upSeq,              \* upstream: sequenceNumber published in state.txt
    upTs,               \* upstream: timestamp published in state.txt
    stateTs,            \* upstream: timestamp of each numbered state file
    pc,                 \* where the call stands
    targetEpoch,
    latestSeq,
    currentTs,
    seq,                \* loop variable of the near-present scan
    low,
    high,
    bestSeq,
    bestTs,
    bestDiff,
    consecutiveErrors,
    result,             \* what the call returned or threw
    currentFetches,     \* history: fetches of state.txt issued so far
    probed,             \* history: numbered state files fetched, in order
    failed,             \* history: numbered fetches that yielded null
    window0,            \* history: the initial window of the binary search
    path,               \* history: the case of the algorithm that was taken
    retries,            \* fetchStateParam: argument `retries`
    delay,              \* fetchStateParam: argument `delay`
    attempt,            \* fetchStateParam: loop variable
    fpc,                \* fetchStateParam: where the call stands
    fvalue,             \* fetchStateParam: what the call returned
    chain,              \* the request or timer the awaited promise hangs on
    unconsumed,         \* a response of this promise was left unread
    strayRequests,      \* requests in flight that belong to a settled promise
    strayTimers,        \* pending timers that belong to a settled promise
    gets,               \* history: GETs issued for the awaited promises
    waits,              \* history: the waits between attempts, in order
    rateLimited,        \* history: 429 responses to the awaited promises
    failures,           \* history: attempts that ended in the catch block
    lastError,          \* fetchStateParam: the error of the last failed attempt
    calls,              \* two invocations of findStateFile: their frames
    urlCall,            \* getStateUrl: its arguments and what it returned
    request,            \* handleFindState: the parameters of the request
    response            \* handleFindState: what was sent

findVars == <<period, timestamp, upSeq, upTs, stateTs, pc, targetEpoch,
              latestSeq, currentTs, seq, low, high, bestSeq, bestTs, bestDiff,
              consecutiveErrors, result, currentFetches, probed, failed,
              window0, path>>

fetchVars == <<retries, delay, attempt, fpc, fvalue, chain, unconsumed,
               strayRequests, strayTimers, gets, waits, rateLimited,
               failures, lastError>>

serveVars == <<urlCall, request, response>>

vars == <<findVars, fetchVars, calls, serveVars>>

inputVars == <<period, timestamp, upSeq, upTs, stateTs>>

----
\* Bounds of the model.

\* the greatest sequence number of a short replication stream
MaxSeq == 6
\* how far before the current state of a short stream the target may lie,
\* in half periods
MaxBack == 10
\* the sequence number a long, regularly spaced replication stream has reached
DeepSeq == 22
\* how far before the current state of a long stream the target may lie,
\* in half periods
DeepBack == 44
\* the current state is published at half period BaseTick or BaseTick + 1
\* of the epoch (the early files of a long stream lie before the epoch)
BaseTick == 45
\* the sub-second part of a target that is not on a whole second
SubSecondMs == 500

\* distances between consecutive state files, in half periods:
\* 0 is a repeated timestamp, 2 the regular spacing, 4 a missed period
Gaps == {0, 2, 4}
\* the spacings of the long streams: every period, or every other period
DeepGaps == {2, 4}

\* the greatest sequence number of a stream whose timestamps are in no order
AnySeq == 5
\* how far before the current state of such a stream the target may lie,
\* in half periods
AnyBack == 8
\* the current state of such a stream is published at half period AnyBase or
\* AnyBase + 1 of the epoch
AnyBase == 20
\* the furthest target ahead of the current state of such a stream, in half
\* periods: it is still ahead after one more state has been published
AnyAhead == 3
\* the greatest sequence number of the stream two concurrent calls read
TwoSeq == 3
\* how far before the current state the targets of two concurrent calls may
\* lie, in half periods
TwoBack == 4
\* the fetches of a call, counted from 1, among which one may yield null
MaxPlan == 4
\* how many 429 responses the awaited promises of one fetchStateParam call may
\* receive
MaxRateLimited == 2
\* distances between consecutive state files of such a stream: a negative one
\* puts file i - 1 after file i
AnyGaps == {-3, 0, 2}

----
\* Constants and pure pieces of the program.

VALID_PERIODS == {"day", "hour", "minute"}

\* an argument that is no period
OtherPeriods == {"week"}

\* fetchStateParam's null
Absent == -1

\* bestDiff = Infinity
Infinity == -1

maxConsecutiveErrors == 3

\* the seconds of the near-present band
NearPresentSeconds == 120

\* the sequence numbers the near-present scan goes back
ScanDepth == 5

Max(a, b) == IF a >= b THEN a ELSE b

\* new Date(ts).getTime() for a timestamp of whole seconds
DateGetTime(ts) == ts * 1000

\* Math.floor(ms / 1000)
Epoch(ms) == ms \div 1000

\* the switch on period
Divider(p) ==
    CASE p = "day" -> 86400
      [] p = "hour" -> 3600
      [] p = "minute" -> 60
      [] OTHER -> 1

\* setMinutes(0, 0, 0) for hour, setHours(0, 0, 0, 0) for day, then Epoch
PeriodStartEpoch(p, ts) ==
    CASE p = "hour" -> Epoch((DateGetTime(ts) \div 3600000) * 3600000)
      [] p = "day" -> Epoch((DateGetTime(ts) \div 86400000) * 86400000)
      [] OTHER -> Epoch(DateGetTime(ts))

\* a period check that lets "week" through
IsValidPeriodLoose(p) == p \in VALID_PERIODS \cup {"week"}

IsValidPeriod(p) == p \in VALID_PERIODS

IsFuture(target, current) == target > current

IsNearPresent(p, target, current) ==
    p = "minute" /\ current - target <= NearPresentSeconds

\* the boundary itself left out of the current period
InCurrentPeriodStrict(p, target, periodStart) ==
    p # "minute" /\ target > periodStart

InCurrentPeriod(p, target, periodStart) ==
    p # "minute" /\ target >= periodStart

\* a scan that goes one sequence number further back
ScanFloorDeeper(latest) == Max(0, latest - ScanDepth - 1)

\* the lowest sequence number of the near-present scan
ScanFloor(latest) == Max(0, latest - ScanDepth)

\* the margin of one added instead of subtracted
TargetSequenceNumberPlusOne(latest, current, target, divider) ==
    (latest * divider - (current - target)) \div divider + 1

\* the quotient floored before it is subtracted
TargetSequenceNumberFloorFirst(latest, current, target, divider) ==
    latest - ((current - target) \div divider) - 1

\* Math.floor(latestSeq - (currentEpoch - targetEpoch) / divider - 1)
TargetSequenceNumber(latest, current, target, divider) ==
    (latest * divider - (current - target) - divider) \div divider

\* line 227 without its clamp at 0
InitialLowUnclamped(latest, current, target, divider) ==
    TargetSequenceNumber(latest, current, target, divider)

\* line 227: Math.max(0, target_sequence_number)
InitialLow(latest, current, target, divider) ==
    Max(0, TargetSequenceNumber(latest, current, target, divider))

Mid(lo, hi) == (lo + hi) \div 2

\* the step back without its minimum of 1
DeltaNoMinimum(lo, hi) == (hi - lo) \div 4

\* line 247
Delta(lo, hi) == Max(1, (hi - lo) \div 4)

\* one failure more tolerated
TooManyErrorsLate(errors) == errors > maxConsecutiveErrors

\* line 243
TooManyErrors(errors) == errors >= maxConsecutiveErrors

\* the midpoint kept in the upper half
NextWindowKeepsMid(lo, hi, mid, timeDiff) ==
    IF timeDiff > 0 THEN <<mid, hi>> ELSE <<lo, mid - 1>>

\* the halves taken the wrong way round
NextWindowSwapped(lo, hi, mid, timeDiff) ==
    IF timeDiff > 0 THEN <<lo, mid - 1>> ELSE <<mid + 1, hi>>

\* the midpoint kept in the lower half
NextWindowKeepsHigh(lo, hi, mid, timeDiff) ==
    IF timeDiff > 0 THEN <<mid + 1, hi>> ELSE <<lo, mid>>

\* lines 270-274: the window after a midpoint that is not an exact match
NextWindow(lo, hi, mid, timeDiff) ==
    IF timeDiff > 0 THEN <<mid + 1, hi>> ELSE <<lo, mid - 1>>

\* line 258 without its first conjunct: a midpoint after the target may
\* become the candidate
IsBetterAnySign(timeDiff, best) ==
    best = Infinity \/ timeDiff < best

\* line 258 taking only the first candidate
IsBetterFirstOnly(timeDiff, best) ==
    timeDiff >= 0 /\ best = Infinity

\* timeDiff >= 0 && timeDiff < bestDiff
IsBetter(timeDiff, best) ==
    timeDiff >= 0 /\ (best = Infinity \/ timeDiff < best)

\* the delay handed to fetchStateParam for a midpoint
ProbeDelay(errors) ==
    IF 1000 * (2 ^ errors) <= 5000 THEN 1000 * (2 ^ errors) ELSE 5000

----
\* Results.

NoWarning == ""
NoError == ""
WarnFuture == "Using latest available state file"
WarnFound == "Found state file at"
WarnLatest == "Using latest available state"
WarnVeryRecent == "Requested time is very recent. Using latest available state"
WarnCurrentPeriod == "Requested time is in the current period. Using latest available state"
ErrFuture == "State file not found: the requested time is ahead of the latest available state"

InvalidPeriod == "Invalid period"
InvalidTimestamp == "Invalid timestamp format"
CurrentStateUnavailable == "Failed to get current state"
NoSuitableState == "No suitable state file found"

Pending ==
    [status |-> "pending", sequenceNumber |-> Absent, timestamp |-> Absent,
     warning |-> NoWarning, error |-> NoError, minutes |-> 0, seconds |-> 0,
     thrown |-> ""]

Returned(s, ts, w) ==
    [Pending EXCEPT !.status = "returned", !.sequenceNumber = s,
                    !.timestamp = ts, !.warning = w]

Thrown(msg) == [Pending EXCEPT !.status = "thrown", !.thrown = msg]

\* minutes and seconds of the message taken for each other
FutureResultSwapped(latest, ts, timeDiff) ==
    [Returned(latest, ts, WarnFuture) EXCEPT
        !.error = ErrFuture,
        !.minutes = timeDiff % 60,
        !.seconds = timeDiff \div 60]

\* the result of lines 151-157
FutureResult(latest, ts, timeDiff) ==
    [Returned(latest, ts, WarnFuture) EXCEPT
        !.error = ErrFuture,
        !.minutes = timeDiff \div 60,
        !.seconds = timeDiff % 60]

\* the result of the search with the warning of the scan
SearchResultWarned(s, ts) ==
    IF s = -1 THEN Thrown(NoSuitableState) ELSE Returned(s, ts, WarnFound)

\* lines 277-285
SearchResult(s, ts) ==
    IF s = -1 THEN Thrown(NoSuitableState) ELSE Returned(s, ts, NoWarning)

----
\* getStateUrl. A URL is a sequence of pieces: the characters of the base URL,
\* "/" separators, the period, decimal digits and the suffix.

DigitChar == <<"0", "1", "2", "3", "4", "5", "6", "7", "8", "9">>

\* seq.toString() of a non-negative integer
RECURSIVE toString(_)
toString(n) ==
    IF n < 10 THEN <<DigitChar[n + 1]>>
    ELSE toString(n \div 10) \o <<DigitChar[(n % 10) + 1]>>

\* padEnd in place of padStart
PadEnd(s, len, fill) ==
    IF Len(s) >= len THEN s
    ELSE [i \in 1..len |-> IF i <= Len(s) THEN s[i] ELSE fill]

\* String.prototype.padStart: a longer string is returned as it is
PadStart(s, len, fill) ==
    IF Len(s) >= len THEN s
    ELSE [i \in 1..len |-> IF i <= len - Len(s) THEN fill
                                               ELSE s[i - (len - Len(s))]]

\* String.prototype.slice(from, to), indices from 0, `to` excluded
Slice(s, from, to) == SubSeq(s, from + 1, to)

\* line 98: baseUrl.replace(/\/$/, '') removes one trailing slash
StripSlash(baseUrl) ==
    IF Len(baseUrl) > 0 /\ baseUrl[Len(baseUrl)] = "/"
    THEN SubSeq(baseUrl, 1, Len(baseUrl) - 1)
    ELSE baseUrl

\* lines 96-106
getStateUrl(baseUrl, p, s, likeOsm) ==
    LET padded == PadStart(toString(s), 9, "0")
        url == IF likeOsm THEN StripSlash(baseUrl) \o <<"/", p>>
                          ELSE StripSlash(baseUrl)
    IN  url \o <<"/">> \o Slice(padded, 0, 3)
            \o <<"/">> \o Slice(padded, 3, 6)
            \o <<"/">> \o Slice(padded, 6, Len(padded))
            \o <<".state.txt">>

\* neither getStateUrl nor handleFindState is looked into
NotServing ==
    /\ urlCall = <<>>
    /\ request = <<>>
    /\ response = <<>>

----
\* fetchStateParam: its constants and the steps of one attempt.

\* line 22: maxRedirects = 5
RedirectBudget == 5
\* line 16: delay = 1000
DefaultDelay == 1000

\* what the awaited promise hangs on: a request in flight or a pending timer
\* of the 429 branch, with the arguments of the fetchWithRedirects call it
\* belongs to; url counts the redirects that led to the requested URL
NoChain == [kind |-> "none", url |-> 0, maxRedirects |-> 0, wait |-> 0]
Get(u, m) == [kind |-> "request", url |-> u, maxRedirects |-> m, wait |-> 0]
Timer(u, m, w) == [kind |-> "timer", url |-> u, maxRedirects |-> m, wait |-> w]

\* line 23 with < in place of ===
TooManyRedirectsBelowZero(maxRedirects) == maxRedirects < 0

\* line 23: maxRedirects === 0
TooManyRedirects(maxRedirects) == maxRedirects = 0

\* line 36: parseInt(res.headers['retry-after']) || delay; the header is
\* Absent when it is missing or not a number
RetryAfter(header, d) == IF header = Absent \/ header = 0 THEN d ELSE header

\* line 37: the delay of the timer
TimerWait(header, d) == RetryAfter(header, d) * 1000

\* a body without the field taken as a failed attempt
LookupThrows(found) ==
    [thrown |-> ~found, value |-> "value"]

\* lines 65-80: the field is looked up in the body of the 200 response: its
\* value, or null (lines 66-69) when no line matches; nothing is thrown
Lookup(found) ==
    [thrown |-> FALSE, value |-> IF found THEN "value" ELSE "null"]

\* line 85: attempt < retries - 1
MoreAttempts(att, r) == att < r - 1

\* line 86 with a linear backoff
WaitTimeLinear(d, att) == d * (att + 1)

\* line 86: delay * Math.pow(2, attempt)
WaitTime(d, att) == d * (2 ^ att)

\* no fetchStateParam call is looked into
NotFetching ==
    /\ retries = 0
    /\ delay = 0
    /\ attempt = 0
    /\ fpc = "none"
    /\ fvalue = "none"
    /\ chain = NoChain
    /\ unconsumed = FALSE
    /\ strayRequests = 0
    /\ strayTimers = 0
    /\ gets = 0
    /\ waits = <<>>
    /\ rateLimited = 0
    /\ failures = 0
    /\ lastError = "none"

----
\* The upstream server and the arguments.

Tick(p) == Divider(p) \div 2

RECURSIVE SumGaps(_, _, _)
SumGaps(gaps, from, to) ==
    IF from > to THEN 0 ELSE gaps[from] + SumGaps(gaps, from + 1, to)

\* the timestamps of the files 0..n when file n is published at `now` and
\* file i - 1 lies gaps[i] half periods before file i
Published(p, n, now, gaps) ==
    [s \in 0..n |-> now - Tick(p) * SumGaps(gaps, s + 1, n)]

\* the replication streams: the short ones with every spacing out of Gaps,
\* the long ones regularly spaced; `back` is how far back the targets reach
Streams ==
    {[n |-> n, gaps |-> g, back |-> MaxBack] :
        <<n, g>> \in UNION {{n} \X [1..n -> Gaps] : n \in 0..MaxSeq}}
      \cup {[n |-> DeepSeq, gaps |-> [i \in 1..DeepSeq |-> d], back |-> DeepBack] :
                d \in DeepGaps}

\* the instants at which the current state was published: on a period
\* boundary or half a period after one (the same to a minute stream)
Nows(p) ==
    IF p \in {"hour", "day"}
    THEN {BaseTick * Tick(p), (BaseTick + 1) * Tick(p)}
    ELSE {BaseTick * Tick(p)}

\* the targets of a call: on the grid of half periods from one ahead of the
\* current state to `back` behind it, or a fraction of a second after the
\* current state
Targets(p, now, back) ==
    {DateGetTime(now - d * Tick(p)) : d \in -1..back}
        \cup {DateGetTime(now) + SubSecondMs}

Init ==
    /\ period \in VALID_PERIODS \cup OtherPeriods
    /\ \E now \in Nows(period), st \in Streams :
         /\ upSeq = st.n
         /\ upTs = now
         /\ stateTs = Published(period, st.n, now, st.gaps)
         /\ timestamp \in
              {[ok |-> TRUE, ms |-> t] : t \in Targets(period, now, st.back)}
                 \cup {[ok |-> FALSE, ms |-> 0]}
    /\ pc = "start"
    /\ targetEpoch = 0
    /\ latestSeq = Absent
    /\ currentTs = Absent
    /\ seq = 0
    /\ low = 0
    /\ high = 0
    /\ bestSeq = -1
    /\ bestTs = Absent
    /\ bestDiff = Infinity
    /\ consecutiveErrors = 0
    /\ result = Pending
    /\ currentFetches = 0
    /\ probed = <<>>
    /\ failed = {}
    /\ window0 = <<0, -1>>
    /\ path = "none"
    /\ NotFetching
    /\ calls = <<>>
    /\ NotServing

----
\* The call of findStateFile.

\* what fetchStateParam can yield to its caller for a field whose value
\* upstream is v: the value (line 80) or null (lines 68 and 91)
FetchOutcomes(v) == {v, Absent}

\* the timestamp field of numbered state file s
NumberedTs(s) == IF s \in DOMAIN stateTs THEN stateTs[s] ELSE Absent

\* the locals of the call and its history, as one record
Locals ==
    [pc |-> pc, result |-> result, seq |-> seq, low |-> low, high |-> high,
     bestSeq |-> bestSeq, bestTs |-> bestTs, bestDiff |-> bestDiff,
     consecutiveErrors |-> consecutiveErrors, probed |-> probed,
     failed |-> failed, window0 |-> window0, path |-> path]

Become(n) ==
    /\ pc' = n.pc
    /\ result' = n.result
    /\ seq' = n.seq
    /\ low' = n.low
    /\ high' = n.high
    /\ bestSeq' = n.bestSeq
    /\ bestTs' = n.bestTs
    /\ bestDiff' = n.bestDiff
    /\ consecutiveErrors' = n.consecutiveErrors
    /\ probed' = n.probed
    /\ failed' = n.failed
    /\ window0' = n.window0
    /\ path' = n.path

\* return or throw
Leave(c, r) == [c EXCEPT !.pc = "done", !.result = r]

\* the head of the scan loop (line 168) and, past the loop, lines 191-197
ScanLoop(c, latest, ts) ==
    IF c.seq >= ScanFloor(latest)
    THEN [c EXCEPT !.pc = "scan", !.probed = Append(@, c.seq)]
    ELSE Leave(c, Returned(latest, ts, WarnVeryRecent))

\* line 171: the fetch of c.seq yielded null
ScanNull(c, latest, ts) ==
    ScanLoop([c EXCEPT !.seq = @ - 1, !.failed = @ \cup {c.seq}], latest, ts)

\* the scan returning the first state it obtains, whatever its timestamp
ScanValueFirstObtained(c, stateTsValue, target, latest, ts) ==
    Leave(c, Returned(c.seq, stateTsValue,
                      IF stateTsValue # ts THEN WarnFound ELSE WarnLatest))

\* lines 173-188: the fetch of c.seq yielded stateTsValue
ScanValue(c, stateTsValue, target, latest, ts) ==
    LET stateEpoch == Epoch(DateGetTime(stateTsValue))
        stateDiff == target - stateEpoch
    IN  IF stateDiff >= 0
        THEN Leave(c, Returned(c.seq, stateTsValue,
                               IF stateTsValue # ts THEN WarnFound ELSE WarnLatest))
        ELSE ScanLoop([c EXCEPT !.seq = @ - 1], latest, ts)

\* the head of the search loop (lines 235-239) and, past the loop, lines 277-285
SearchLoop(c) ==
    IF c.low <= c.high
    THEN [c EXCEPT !.pc = "search", !.probed = Append(@, Mid(c.low, c.high))]
    ELSE Leave(c, SearchResult(c.bestSeq, c.bestTs))

\* lines 241-250: the fetch of the midpoint yielded null
ProbeNull(c) ==
    LET mid == Mid(c.low, c.high)
        c1 == [c EXCEPT !.consecutiveErrors = @ + 1, !.failed = @ \cup {mid}]
    IN  IF TooManyErrors(c1.consecutiveErrors)
        THEN Leave(c1, SearchResult(c1.bestSeq, c1.bestTs))
        ELSE SearchLoop([c1 EXCEPT !.high = mid - Delta(c.low, c.high)])

\* lines 251-274: the fetch of the midpoint yielded midTs
ProbeValue(c, midTs, target) ==
    LET mid == Mid(c.low, c.high)
        midEpoch == Epoch(DateGetTime(midTs))
        timeDiff == target - midEpoch
        c1 == [c EXCEPT !.consecutiveErrors = 0]
        c2 == IF IsBetter(timeDiff, c1.bestDiff)
              THEN [c1 EXCEPT !.bestSeq = mid, !.bestTs = midTs,
                              !.bestDiff = timeDiff]
              ELSE c1
    IN  IF timeDiff = 0
        THEN LET c3 == [c2 EXCEPT !.bestSeq = mid, !.bestTs = midTs]
             IN  Leave(c3, SearchResult(c3.bestSeq, c3.bestTs))
        ELSE LET w == NextWindow(c2.low, c2.high, mid, timeDiff)
             IN  SearchLoop([c2 EXCEPT !.low = w[1], !.high = w[2]])

\* lines 211-234: the window and the accumulator before the first probe
SearchStart(c, p, latest, current, target) ==
    LET lo == InitialLow(latest, current, target, Divider(p))
    IN  SearchLoop([c EXCEPT !.low = lo, !.high = latest, !.bestSeq = -1,
                             !.bestTs = Absent, !.bestDiff = Infinity,
                             !.consecutiveErrors = 0,
                             !.window0 = <<lo, latest>>, !.path = "general"])

\* line 129 with && in place of ||: only a state.txt that yields neither field
\* counts as missing
CurrentStateMissingBoth(latest, ts) == latest = Absent /\ ts = Absent

\* line 129: !latestSeq || !currentTs
CurrentStateMissing(latest, ts) == latest = Absent \/ ts = Absent

\* lines 129-239: from the two fields of state.txt to the first numbered
\* fetch or to the result
Resolve(c, p, target, latest, ts) ==
    IF CurrentStateMissing(latest, ts)
    THEN Leave(c, Thrown(CurrentStateUnavailable))
    ELSE
      LET currentEpoch == Epoch(DateGetTime(ts))
          periodStartEpoch == PeriodStartEpoch(p, ts)
      IN  IF IsFuture(target, currentEpoch)
          THEN Leave([c EXCEPT !.path = "future"],
                     FutureResult(latest, ts, target - currentEpoch))
          ELSE IF IsNearPresent(p, target, currentEpoch)
          THEN ScanLoop([c EXCEPT !.seq = latest, !.path = "near"], latest, ts)
          ELSE IF InCurrentPeriod(p, target, periodStartEpoch)
          THEN Leave([c EXCEPT !.path = "current"],
                     Returned(latest, ts, WarnCurrentPeriod))
          ELSE SearchStart(c, p, latest, currentEpoch, target)

\* lines 109-126: the arguments are checked, then state.txt is requested
Validate ==
    /\ pc = "start"
    /\ IF ~IsValidPeriod(period)
       THEN /\ Become(Leave(Locals, Thrown(InvalidPeriod)))
            /\ UNCHANGED <<targetEpoch, currentFetches>>
       ELSE IF ~timestamp.ok
       THEN /\ Become(Leave(Locals, Thrown(InvalidTimestamp)))
            /\ UNCHANGED <<targetEpoch, currentFetches>>
       ELSE /\ targetEpoch' = Epoch(timestamp.ms)
            /\ currentFetches' = currentFetches + 1
            /\ Become([Locals EXCEPT !.pc = "fetchSeq"])
    /\ UNCHANGED <<serveVars, calls, fetchVars, inputVars, latestSeq, currentTs>>

\* line 126 resolves, line 127 requests state.txt again
FetchLatestSeq ==
    /\ pc = "fetchSeq"
    /\ \E v \in FetchOutcomes(upSeq) : latestSeq' = v
    /\ currentFetches' = currentFetches + 1
    /\ Become([Locals EXCEPT !.pc = "fetchTs"])
    /\ UNCHANGED <<serveVars, calls, fetchVars, inputVars, targetEpoch, currentTs>>

\* line 127 resolves, lines 129-239 run
FetchCurrentTs ==
    /\ pc = "fetchTs"
    /\ \E v \in FetchOutcomes(upTs) :
         /\ currentTs' = v
         /\ Become(Resolve(Locals, period, targetEpoch, latestSeq, v))
    /\ UNCHANGED <<serveVars, calls, fetchVars, inputVars, targetEpoch, latestSeq, currentFetches>>

\* line 170 resolves, the scan goes on to its next fetch or returns
ScanStep ==
    /\ pc = "scan"
    /\ \E v \in FetchOutcomes(NumberedTs(seq)) :
         Become(IF v = Absent
                THEN ScanNull(Locals, latestSeq, currentTs)
                ELSE ScanValue(Locals, v, targetEpoch, latestSeq, currentTs))
    /\ UNCHANGED <<serveVars, calls, fetchVars, inputVars, targetEpoch, latestSeq, currentTs, currentFetches>>

\* line 239 resolves, the search goes on to its next probe or ends
SearchStep ==
    /\ pc = "search"
    /\ \E v \in FetchOutcomes(NumberedTs(Mid(low, high))) :
         Become(IF v = Absent
                THEN ProbeNull(Locals)
                ELSE ProbeValue(Locals, v, targetEpoch))
    /\ UNCHANGED <<serveVars, calls, fetchVars, inputVars, targetEpoch, latestSeq, currentTs, currentFetches>>

Next ==
    \/ Validate
    \/ FetchLatestSeq
    \/ FetchCurrentTs
    \/ ScanStep
    \/ SearchStep

Spec == Init /\ [][Next]_vars

----
\* The call against an upstream whose state files carry timestamps in no
\* order and which publishes a new state while the call runs.

AnyStreams ==
    {[n |-> n, gaps |-> g, back |-> AnyBack] :
        <<n, g>> \in UNION {{n} \X [1..n -> AnyGaps] : n \in 0..AnySeq}}
      \cup {[n |-> DeepSeq, gaps |-> [i \in 1..DeepSeq |-> d], back |-> DeepBack] :
                d \in DeepGaps}

AnyNows(p, st) ==
    IF st.n = DeepSeq
    THEN Nows(p)
    ELSE IF p \in {"hour", "day"}
    THEN {AnyBase * Tick(p), (AnyBase + 1) * Tick(p)}
    ELSE {AnyBase * Tick(p)}

\* the targets of Targets and, for a short stream, one further ahead
AnyTargets(p, now, st) ==
    Targets(p, now, st.back)
        \cup (IF st.n = DeepSeq
              THEN {}
              ELSE {DateGetTime(now + AnyAhead * Tick(p))})

InitAny ==
    /\ period \in VALID_PERIODS \cup OtherPeriods
    /\ \E st \in AnyStreams : \E now \in AnyNows(period, st) :
         /\ upSeq = st.n
         /\ upTs = now
         /\ stateTs = Published(period, st.n, now, st.gaps)
         /\ timestamp \in
              {[ok |-> TRUE, ms |-> t] : t \in AnyTargets(period, now, st)}
                 \cup {[ok |-> FALSE, ms |-> 0]}
    /\ pc = "start"
    /\ targetEpoch = 0
    /\ latestSeq = Absent
    /\ currentTs = Absent
    /\ seq = 0
    /\ low = 0
    /\ high = 0
    /\ bestSeq = -1
    /\ bestTs = Absent
    /\ bestDiff = Infinity
    /\ consecutiveErrors = 0
    /\ result = Pending
    /\ currentFetches = 0
    /\ probed = <<>>
    /\ failed = {}
    /\ window0 = <<0, -1>>
    /\ path = "none"
    /\ NotFetching
    /\ calls = <<>>
    /\ NotServing

\* the upstream publishes the next state, one period after the current one,
\* between the call's two reads of state.txt (lines 126 and 127)
Publish ==
    /\ pc = "fetchTs"
    /\ latestSeq = upSeq
    /\ upSeq' = upSeq + 1
    /\ upTs' = upTs + Divider(period)
    /\ stateTs' = [s \in 0..(upSeq + 1) |->
                     IF s <= upSeq THEN stateTs[s] ELSE upTs + Divider(period)]
    /\ UNCHANGED <<serveVars, calls, fetchVars, period, timestamp, pc, targetEpoch, latestSeq,
                   currentTs,
                   seq, low, high, bestSeq, bestTs, bestDiff,
                   consecutiveErrors, result, currentFetches, probed, failed,
                   window0, path>>

AnyNext ==
    \/ Validate
    \/ FetchLatestSeq
    \/ FetchCurrentTs
    \/ ScanStep
    \/ SearchStep
    \/ Publish

AnySpec == InitAny /\ [][AnyNext]_vars

----
\* One call of fetchStateParam, request by request.

\* the values of the Retry-After header of a 429 response: none, 0, seconds
RetryAfterHeaders == {Absent, 0, 2}

\* the (retries, delay) of the calls findStateFile makes: lines 126-127,
\* line 170 and line 239
CallSites ==
    {<<5, DefaultDelay>>, <<2, DefaultDelay>>}
        \cup {<<3, ProbeDelay(e)>> : e \in 0..(maxConsecutiveErrors - 1)}

\* no findStateFile call is looked into
NotFinding ==
    /\ period = "minute"
    /\ timestamp = [ok |-> TRUE, ms |-> 0]
    /\ upSeq = 0
    /\ upTs = 0
    /\ stateTs = [s \in 0..0 |-> 0]
    /\ pc = "none"
    /\ targetEpoch = 0
    /\ latestSeq = Absent
    /\ currentTs = Absent
    /\ seq = 0
    /\ low = 0
    /\ high = 0
    /\ bestSeq = -1
    /\ bestTs = Absent
    /\ bestDiff = Infinity
    /\ consecutiveErrors = 0
    /\ result = Pending
    /\ currentFetches = 0
    /\ probed = <<>>
    /\ failed = {}
    /\ window0 = <<0, -1>>
    /\ path = "none"

\* lines 16-18: the call has entered its loop
FetchInit ==
    /\ NotFinding
    /\ calls = <<>>
    /\ NotServing
    /\ \E site \in CallSites : retries = site[1] /\ delay = site[2]
    /\ attempt = 0
    /\ fpc = "loop"
    /\ fvalue = "none"
    /\ chain = NoChain
    /\ unconsumed = FALSE
    /\ strayRequests = 0
    /\ strayTimers = 0
    /\ gets = 0
    /\ waits = <<>>
    /\ rateLimited = 0
    /\ failures = 0
    /\ lastError = "none"

\* lines 81-93: the awaited promise rejects; the catch block waits before the
\* next attempt or returns null
Rejected(error) ==
    /\ lastError' = error
    /\ unconsumed' = FALSE
    /\ failures' = failures + 1
    /\ IF MoreAttempts(attempt, retries)
       THEN /\ fpc' = "sleeping"
            /\ waits' = Append(waits, WaitTime(delay, attempt))
            /\ fvalue' = fvalue
       ELSE /\ fpc' = "returned"
            /\ fvalue' = "null"
            /\ waits' = waits

\* lines 18-63: an attempt starts; fetchWithRedirects(url) issues its GET
Attempt ==
    /\ fpc = "loop"
    /\ attempt < retries
    /\ fpc' = "awaiting"
    /\ chain' = Get(0, RedirectBudget)
    /\ gets' = gets + 1
    /\ UNCHANGED <<serveVars, calls, findVars, failures, lastError, retries, delay, attempt, fvalue, unconsumed,
                   strayRequests, strayTimers, waits, rateLimited>>

\* lines 46-52 and 65-80: status 200, the body is read to its end and the
\* field is looked up; a body without the field yields null at once
Respond200 ==
    /\ fpc = "awaiting"
    /\ chain.kind = "request"
    /\ chain' = NoChain
    /\ \E found \in BOOLEAN :
         LET looked == Lookup(found)
         IN  IF looked.thrown
             THEN Rejected("field not found")
             ELSE /\ fvalue' = looked.value
                  /\ fpc' = "returned"
                  /\ unconsumed' = FALSE
                  /\ UNCHANGED <<failures, lastError, waits>>
    /\ UNCHANGED <<serveVars, calls, findVars, retries, delay, attempt, strayRequests,
                   strayTimers, gets, rateLimited>>

\* lines 29-33 and 23-26: status 301 or 302; the response is left unread and
\* fetchWithRedirects(redirectUrl, maxRedirects - 1) is called
RespondRedirect ==
    /\ fpc = "awaiting"
    /\ chain.kind = "request"
    /\ IF TooManyRedirects(chain.maxRedirects - 1)
       THEN /\ chain' = NoChain
            /\ Rejected("Too many redirects")
            /\ gets' = gets
       ELSE /\ chain' = Get(chain.url + 1, chain.maxRedirects - 1)
            /\ gets' = gets + 1
            /\ unconsumed' = TRUE
            /\ UNCHANGED <<fpc, fvalue, waits, failures, lastError>>
    /\ UNCHANGED <<serveVars, calls, findVars, retries, delay, attempt, strayRequests,
                   strayTimers, rateLimited>>

\* lines 35-39: status 429; the response is left unread and a timer is set
Respond429 ==
    /\ fpc = "awaiting"
    /\ chain.kind = "request"
    /\ rateLimited < MaxRateLimited
    /\ \E header \in RetryAfterHeaders :
         chain' = Timer(chain.url, chain.maxRedirects, TimerWait(header, delay))
    /\ unconsumed' = TRUE
    /\ rateLimited' = rateLimited + 1
    /\ UNCHANGED <<serveVars, calls, findVars, failures, lastError, retries, delay, attempt, fpc, fvalue,
                   strayRequests, strayTimers, gets, waits>>

\* line 37: the timer fires, fetchWithRedirects(url, maxRedirects)
TimerFires ==
    /\ fpc = "awaiting"
    /\ chain.kind = "timer"
    /\ chain' = Get(chain.url, chain.maxRedirects)
    /\ gets' = gets + 1
    /\ UNCHANGED <<serveVars, calls, findVars, failures, lastError, retries, delay, attempt, fpc, fvalue, unconsumed,
                   strayRequests, strayTimers, waits, rateLimited>>

\* lines 41-44 and 56-61: the request in flight ends in a status other than
\* 200, 301, 302, 429, in an 'error' event or in its 'timeout' event
RespondFailure ==
    /\ fpc = "awaiting"
    /\ chain.kind = "request"
    /\ chain' = NoChain
    /\ \E error \in {"HTTP status", "network error", "Request timed out"} :
         Rejected(error)
    /\ UNCHANGED <<serveVars, calls, findVars, retries, delay, attempt, strayRequests,
                   strayTimers, gets, rateLimited>>

\* lines 56-61: the 'timeout' event of an earlier request of this promise,
\* whose 301, 302 or 429 response was never read, so that its socket stayed
\* idle: the promise rejects while its latest request or timer is still
\* outstanding
StaleTimeout ==
    /\ fpc = "awaiting"
    /\ unconsumed
    /\ chain' = NoChain
    /\ strayRequests' = strayRequests + (IF chain.kind = "request" THEN 1 ELSE 0)
    /\ strayTimers' = strayTimers + (IF chain.kind = "timer" THEN 1 ELSE 0)
    /\ Rejected("Request timed out")
    /\ UNCHANGED <<serveVars, calls, findVars, retries, delay, attempt, gets, rateLimited>>

\* lines 87-88: the wait is over, the loop goes on with attempt++
Wake ==
    /\ fpc = "sleeping"
    /\ attempt' = attempt + 1
    /\ fpc' = "loop"
    /\ UNCHANGED <<serveVars, calls, findVars, failures, lastError, retries, delay, fvalue, chain, unconsumed,
                   strayRequests, strayTimers, gets, waits, rateLimited>>

\* a request of a settled promise ends: resolve and reject have no effect
StrayEnds ==
    /\ strayRequests > 0
    /\ strayRequests' = strayRequests - 1
    /\ UNCHANGED <<serveVars, calls, findVars, failures, lastError, retries, delay, attempt, fpc, fvalue, chain,
                   unconsumed, strayTimers, gets, waits, rateLimited>>

\* lines 35-39 for a request of a settled promise
StrayRateLimited ==
    /\ strayRequests > 0
    /\ strayRequests' = strayRequests - 1
    /\ strayTimers' = strayTimers + 1
    /\ UNCHANGED <<serveVars, calls, findVars, failures, lastError, retries, delay, attempt, fpc, fvalue, chain,
                   unconsumed, gets, waits, rateLimited>>

\* line 37 for a timer of a settled promise
StrayTimerFires ==
    /\ strayTimers > 0
    /\ strayTimers' = strayTimers - 1
    /\ strayRequests' = strayRequests + 1
    /\ UNCHANGED <<serveVars, calls, findVars, failures, lastError, retries, delay, attempt, fpc, fvalue, chain,
                   unconsumed, gets, waits, rateLimited>>

FetchNext ==
    \/ Attempt
    \/ Respond200
    \/ RespondRedirect
    \/ Respond429
    \/ TimerFires
    \/ RespondFailure
    \/ StaleTimeout
    \/ Wake
    \/ StrayEnds
    \/ StrayRateLimited
    \/ StrayTimerFires

FetchSpec == FetchInit /\ [][FetchNext]_vars

----
\* One call of getStateUrl.

\* base URLs without and with trailing slashes
BaseUrls == {<<"h", "o", "s", "t">>, <<"h", "o", "s", "t", "/">>,
             <<"h", "/", "r", "/", "/">>}

\* sequence numbers around every change of the number of digits, the
\* README's example, and the first one of ten digits
UrlSeqs ==
    {0, 1, 9, 10, 99, 100, 999, 1000, 1001, 9999, 10000, 99999, 100000,
     442600, 600442, 999999, 1000000, 6600442, 6600443, 9999999, 10000000,
     99999999, 100000000, 123456789, 999999999, 1000000000}

UrlInit ==
    /\ NotFinding
    /\ NotFetching
    /\ calls = <<>>
    /\ request = <<>>
    /\ response = <<>>
    /\ urlCall \in [baseUrl : BaseUrls, period : VALID_PERIODS, seq : UrlSeqs,
                     likeOsm : BOOLEAN, url : {<<>>}]

\* the call returns
GetStateUrl ==
    /\ urlCall.url = <<>>
    /\ urlCall' = [urlCall EXCEPT !.url = getStateUrl(urlCall.baseUrl,
                                                      urlCall.period,
                                                      urlCall.seq,
                                                      urlCall.likeOsm)]
    /\ UNCHANGED <<findVars, fetchVars, calls, request, response>>

UrlNext == GetStateUrl

UrlSpec == UrlInit /\ [][UrlNext]_vars

----
\* handleFindState (api/server.js) around one call of findStateFile.

\* nothing was sent yet
NoResponse ==
    [stage |-> "received", status |-> 0, hasState |-> FALSE,
     sequenceNumber |-> Absent, timestamp |-> Absent, error |-> NoError,
     warning |-> NoWarning]

MissingParameters == "Missing required parameters: period and timestamp are required"

\* server.js line 141: error.message.includes('State file not found: the
\* requested time'), over the messages findStateFile throws
IncludesStateFileNotFound(msg) == msg \in {ErrFuture}

\* server.js line 149: error.message.includes('Invalid'), over the messages
\* findStateFile throws (env.d.ts lines 110, 115, 130, 278)
IncludesInvalid(msg) == msg \in {InvalidPeriod, InvalidTimestamp}

\* every failure taken for the server's
FailureStatusAlways500(msg) ==
    IF IncludesStateFileNotFound(msg) THEN 404 ELSE 500

\* server.js lines 141-149: the status of the catch block
FailureStatus(msg) ==
    IF IncludesStateFileNotFound(msg) THEN 404
    ELSE IF IncludesInvalid(msg) THEN 400 ELSE 500

\* server.js lines 139-157: the catch block sends the error
Failure(msg) ==
    [NoResponse EXCEPT !.stage = "sent", !.status = FailureStatus(msg),
                       !.error = msg]

\* server.js lines 39-59: the response without the contents of the file
Plain(r) ==
    [NoResponse EXCEPT !.stage = "sent",
                       !.status = IF r.error # NoError THEN 404 ELSE 200,
                       !.hasState = TRUE,
                       !.sequenceNumber = r.sequenceNumber,
                       !.timestamp = r.timestamp,
                       !.error = r.error,
                       !.warning = r.warning]

\* server.js lines 108-138: the response after the attempt to fetch the
\* contents; the sequence number read from the contents (line 112) or from
\* the url (line 119) is the one of the result
WithContents(r) ==
    [NoResponse EXCEPT !.stage = "sent",
                       !.status = 200,
                       !.hasState = TRUE,
                       !.sequenceNumber = r.sequenceNumber,
                       !.timestamp = r.timestamp,
                       !.warning = r.warning]

\* the requests: each of period and timestamp given or not, fetchContent
Requests == [periodGiven : BOOLEAN, timestampGiven : BOOLEAN,
             fetchContent : BOOLEAN]

HandleStreams ==
    {[n |-> n, gaps |-> g, back |-> TwoBack] :
        <<n, g>> \in UNION {{n} \X [1..n -> Gaps] : n \in 0..TwoSeq}}

HandleInit ==
    /\ NotFetching
    /\ calls = <<>>
    /\ urlCall = <<>>
    /\ request \in Requests
    /\ response = NoResponse
    /\ period \in VALID_PERIODS \cup OtherPeriods
    /\ \E st \in HandleStreams :
         /\ upSeq = st.n
         /\ upTs = AnyBase * Tick(period)
         /\ stateTs = Published(period, st.n, upTs, st.gaps)
         /\ timestamp \in
              {[ok |-> TRUE, ms |-> t] : t \in Targets(period, upTs, st.back)}
                 \cup {[ok |-> FALSE, ms |-> 0]}
    /\ pc = "none"
    /\ targetEpoch = 0
    /\ latestSeq = Absent
    /\ currentTs = Absent
    /\ seq = 0
    /\ low = 0
    /\ high = 0
    /\ bestSeq = -1
    /\ bestTs = Absent
    /\ bestDiff = Infinity
    /\ consecutiveErrors = 0
    /\ result = Pending
    /\ currentFetches = 0
    /\ probed = <<>>
    /\ failed = {}
    /\ window0 = <<0, -1>>
    /\ path = "none"

\* server.js lines 22-38: the parameters are read; without period or
\* timestamp 400 is sent, otherwise findStateFile is called
Receive ==
    /\ response.stage = "received"
    /\ pc = "none"
    /\ IF ~request.periodGiven \/ ~request.timestampGiven
       THEN /\ response' = [NoResponse EXCEPT !.stage = "sent", !.status = 400,
                                              !.error = MissingParameters]
            /\ pc' = pc
       ELSE /\ response' = [response EXCEPT !.stage = "resolving"]
            /\ pc' = "start"
    /\ UNCHANGED <<fetchVars, calls, urlCall, request, inputVars, targetEpoch,
                   latestSeq, currentTs, seq, low, high, bestSeq, bestTs,
                   bestDiff, consecutiveErrors, result, currentFetches,
                   probed, failed, window0, path>>

\* server.js lines 38-60 and 139-157: findStateFile has returned or thrown
Resolved ==
    /\ response.stage = "resolving"
    /\ pc = "done"
    /\ response' =
         IF result.status = "thrown" THEN Failure(result.thrown)
         ELSE IF ~request.fetchContent THEN Plain(result)
         ELSE [response EXCEPT !.stage = "contents"]
    /\ UNCHANGED <<findVars, fetchVars, calls, urlCall, request>>

\* server.js lines 61-138: the fetch of the contents has succeeded or
\* failed (the inner catch of line 114); both ways the response is sent
ContentsFetched ==
    /\ response.stage = "contents"
    /\ response' = WithContents(result)
    /\ UNCHANGED <<findVars, fetchVars, calls, urlCall, request>>

HandleNext ==
    \/ Receive
    \/ Validate
    \/ FetchLatestSeq
    \/ FetchCurrentTs
    \/ ScanStep
    \/ SearchStep
    \/ Resolved
    \/ ContentsFetched

HandleSpec == HandleInit /\ [][HandleNext]_vars

----
\* Two invocations of findStateFile that run interleaved against one upstream.

Calls == {1, 2}

\* which of its fetches yield null to a call: none, or one of the first ones
Plans == {{}} \cup {{k} : k \in 1..MaxPlan}

\* the arguments, the locals and the history of an invocation at line 108;
\* `fetches` counts the fetches that have returned to it
Fresh(p, t, plan) ==
    [period |-> p, timestamp |-> t, plan |-> plan, fetches |-> 0,
     pc |-> "start", result |-> Pending, targetEpoch |-> 0,
     latestSeq |-> Absent, currentTs |-> Absent, seq |-> 0, low |-> 0,
     high |-> 0, bestSeq |-> -1, bestTs |-> Absent, bestDiff |-> Infinity,
     consecutiveErrors |-> 0, currentFetches |-> 0, probed |-> <<>>,
     failed |-> {}, window0 |-> <<0, -1>>, path |-> "none"]

\* every let and const of findStateFile in one frame for both invocations
FrameShared(i) == 1

\* lines 108-234: period and timestamp are parameters, every other variable
\* is declared with let or const inside the function, so each invocation
\* has a frame of its own; lines 13-14 are module constants nothing writes
Frame(i) == i

\* the invocation `own` with the declared variables of the frame `frame`
Overlay(own, frame) ==
    [own EXCEPT !.targetEpoch = frame.targetEpoch,
                !.latestSeq = frame.latestSeq,
                !.currentTs = frame.currentTs,
                !.seq = frame.seq,
                !.low = frame.low,
                !.high = frame.high,
                !.bestSeq = frame.bestSeq,
                !.bestTs = frame.bestTs,
                !.bestDiff = frame.bestDiff,
                !.consecutiveErrors = frame.consecutiveErrors]

\* what the upstream holds for the fetch the invocation c awaits
Awaited(c) ==
    CASE c.pc = "fetchSeq" -> upSeq
      [] c.pc = "fetchTs" -> upTs
      [] c.pc = "scan" -> NumberedTs(c.seq)
      [] c.pc = "search" -> NumberedTs(Mid(c.low, c.high))
      [] OTHER -> Absent

\* what that fetch yields to c
Yield(c) == IF (c.fetches + 1) \in c.plan THEN Absent ELSE Awaited(c)

\* lines 108-286: the invocation c runs from where it stands to its next
\* await, return or throw; v is what the fetch it awaited has yielded
CallStep(c, v) ==
    CASE c.pc = "start" ->
           IF ~IsValidPeriod(c.period) THEN Leave(c, Thrown(InvalidPeriod))
           ELSE IF ~c.timestamp.ok THEN Leave(c, Thrown(InvalidTimestamp))
           ELSE [c EXCEPT !.targetEpoch = Epoch(c.timestamp.ms),
                          !.currentFetches = @ + 1, !.pc = "fetchSeq"]
      [] c.pc = "fetchSeq" ->
           [c EXCEPT !.latestSeq = v, !.currentFetches = @ + 1,
                     !.fetches = @ + 1, !.pc = "fetchTs"]
      [] c.pc = "fetchTs" ->
           Resolve([c EXCEPT !.currentTs = v, !.fetches = @ + 1],
                   c.period, c.targetEpoch, c.latestSeq, v)
      [] c.pc = "scan" ->
           IF v = Absent
           THEN ScanNull([c EXCEPT !.fetches = @ + 1], c.latestSeq, c.currentTs)
           ELSE ScanValue([c EXCEPT !.fetches = @ + 1], v, c.targetEpoch,
                          c.latestSeq, c.currentTs)
      [] c.pc = "search" ->
           IF v = Absent
           THEN ProbeNull([c EXCEPT !.fetches = @ + 1])
           ELSE ProbeValue([c EXCEPT !.fetches = @ + 1], v, c.targetEpoch)
      [] OTHER -> c

TwoInit ==
    /\ NotFetching
    /\ NotServing
    /\ pc = "none"
    /\ timestamp = [ok |-> TRUE, ms |-> 0]
    /\ targetEpoch = 0
    /\ latestSeq = Absent
    /\ currentTs = Absent
    /\ seq = 0
    /\ low = 0
    /\ high = 0
    /\ bestSeq = -1
    /\ bestTs = Absent
    /\ bestDiff = Infinity
    /\ consecutiveErrors = 0
    /\ result = Pending
    /\ currentFetches = 0
    /\ probed = <<>>
    /\ failed = {}
    /\ window0 = <<0, -1>>
    /\ path = "none"
    /\ period \in VALID_PERIODS
    /\ upSeq = TwoSeq
    /\ upTs = AnyBase * Tick(period)
    /\ \E g \in [1..TwoSeq -> Gaps \ {4}] :
         stateTs = Published(period, TwoSeq, upTs, g)
    /\ calls \in [Calls ->
                    {Fresh(period, [ok |-> TRUE, ms |-> t], plan) :
                        t \in Targets(period, upTs, TwoBack), plan \in Plans}]

\* the fetch the invocation i awaits returns and i runs on, reading and
\* writing its declared variables in its frame
Step(i) ==
    LET f == Frame(i)
        c == Overlay(calls[i], calls[f])
        n == CallStep(c, Yield(c))
    IN  /\ calls' = IF f = i
                     THEN [calls EXCEPT ![i] = n]
                     ELSE [calls EXCEPT ![i] = n, ![f] = Overlay(calls[f], n)]
        /\ UNCHANGED <<findVars, fetchVars, serveVars>>

StepFirst ==
    /\ calls[1].pc # "done"
    /\ Step(1)

StepSecond ==
    /\ calls[2].pc # "done"
    /\ Step(2)

TwoNext ==
    \/ StepFirst
    \/ StepSecond

TwoSpec == TwoInit /\ [][TwoNext]_vars

----
\* What the claims speak of.

Done == pc = "done"
ReturnedResult == Done /\ result.status = "returned"
ThrownWith(msg) == Done /\ result = Thrown(msg)

\* both fields of state.txt were obtained
CurrentStateKnown == latestSeq # Absent /\ currentTs # Absent

\* the state file s is not after the target
AtOrBefore(s) == DateGetTime(stateTs[s]) <= timestamp.ms

\* the sequence numbers of S whose state is not after the target
Qualifying(S) == {s \in S : AtOrBefore(s)}

Greatest(S) == CHOOSE s \in S : \A t \in S : t <= s

\* the latest timestamp not after the target among the states of S
LatestTs(S) == stateTs[CHOOSE s \in Qualifying(S) :
                         \A t \in Qualifying(S) : stateTs[t] <= stateTs[s]]

NonDecreasing(S) == \A i, j \in S : i <= j => stateTs[i] <= stateTs[j]
StrictlyIncreasing(S) == \A i, j \in S : i < j => stateTs[i] < stateTs[j]

\* the elapsed whole periods, rounded up
CeilDiv(a, b) == (a + b - 1) \div b

\* the window the search starts from, from the spacing of the period:
\* one more than the elapsed periods (rounded up) below the latest state
StartWindow ==
    Max(0, latestSeq - 1
             - CeilDiv(Epoch(DateGetTime(currentTs)) - targetEpoch, Divider(period)))
        .. latestSeq

\* a finished search in which no fetch of a numbered file failed
CleanSearch == Done /\ path = "general" /\ failed = {}

----
\* C1, as claimed: in the general case, with timestamps non-decreasing over
\* [0, latestSeq] and no failed probe, the call returns the greatest sequence
\* number of [0, latestSeq] whose state timestamp is at or before the target.
C1_GreatestSequenceNumber ==
    (CleanSearch /\ NonDecreasing(0..latestSeq)
        /\ Qualifying(0..latestSeq) # {})
    => /\ ReturnedResult
       /\ result.sequenceNumber = Greatest(Qualifying(0..latestSeq))

\* C1, amended: under the same conditions the call returns exactly when some
\* sequence number of the initial window is at or before the target, and then
\* the state it returns carries the latest timestamp at or before the target
\* of all of [0, latestSeq]; its sequence number is the greatest such one when
\* the timestamps are strictly increasing.  Otherwise it throws
\* NoSuitableState.
C1_LatestTimestampOfWindow ==
    (CleanSearch /\ NonDecreasing(0..latestSeq))
    => IF Qualifying(StartWindow) # {}
       THEN /\ ReturnedResult
            /\ result.sequenceNumber \in Qualifying(StartWindow)
            /\ result.timestamp = stateTs[result.sequenceNumber]
            /\ result.timestamp = LatestTs(0..latestSeq)
            /\ StrictlyIncreasing(0..latestSeq)
                 => result.sequenceNumber = Greatest(Qualifying(0..latestSeq))
       ELSE ThrownWith(NoSuitableState)

\* C1's case: a clean search over strictly increasing timestamps that
\* narrowed upward and downward and returned a state below the latest one
C1_Witness ==
    /\ CleanSearch /\ ReturnedResult
    /\ StrictlyIncreasing(0..latestSeq)
    /\ Len(probed) >= 3
    /\ result.sequenceNumber < latestSeq
    /\ \E s \in StartWindow : s < result.sequenceNumber
    /\ DateGetTime(result.timestamp) < timestamp.ms

----
\* C2: whatever midpoint fetches fail, a search either returns the greatest
\* sequence number of its search range whose timestamp is at or before the
\* target, or throws; it returns no other candidate as a clean result.
\* (Stated over strictly increasing timestamps, where that sequence number
\* is the only best match.)
C2_BestAvailableOrFails ==
    (Done /\ path = "general" /\ StrictlyIncreasing(0..latestSeq))
    => \/ result.status = "thrown"
       \/ /\ Qualifying(window0[1]..window0[2]) # {}
          /\ result.sequenceNumber = Greatest(Qualifying(window0[1]..window0[2]))

----
\* the sequence numbers of S whose state carries exactly the target timestamp
ExactMatches(S) == {s \in S : DateGetTime(stateTs[s]) = timestamp.ms}

\* no fetch of the call failed
NoFetchFailed == CurrentStateKnown /\ failed = {}

\* C3, as claimed: for every valid period and every target equal to the
\* timestamp of a state that exists upstream, the call returns that state's
\* sequence number and the result carries no warning.
C3_ExactMatchAnywhere ==
    (Done /\ IsValidPeriod(period) /\ timestamp.ok /\ NoFetchFailed
        /\ ExactMatches(0..upSeq) # {})
    => /\ ReturnedResult
       /\ result.sequenceNumber \in ExactMatches(0..upSeq)
       /\ result.warning = NoWarning

\* C3, amended: for every valid period, when the call takes the general
\* (binary search) case, the timestamps are non-decreasing, no fetch fails and
\* the target equals the timestamp of a state of the initial window, the call
\* returns a sequence number whose state carries exactly that timestamp (the
\* state's own sequence number when no other state repeats the timestamp),
\* with no warning and no error.
C3_ExactMatchInWindow ==
    (Done /\ path = "general" /\ NoFetchFailed /\ NonDecreasing(0..latestSeq)
        /\ ExactMatches(StartWindow) # {})
    => /\ ReturnedResult
       /\ result.sequenceNumber \in ExactMatches(StartWindow)
       /\ DateGetTime(result.timestamp) = timestamp.ms
       /\ result.warning = NoWarning
       /\ result.error = NoError

\* C3's case: the search ended on an exact match after narrowing, in each
\* of the three periods
C3_Witness ==
    /\ Done /\ path = "general" /\ NoFetchFailed
    /\ ExactMatches(StartWindow) = {result.sequenceNumber}
    /\ Len(probed) >= 2
    /\ result.warning = NoWarning

----
\* C4, as claimed: for every period and every target strictly after the
\* current state's timestamp the call returns the current sequence number with
\* a warning and an error telling the minutes and seconds ahead, and probes
\* no numbered state file.
C4_EveryLaterTarget ==
    (Done /\ IsValidPeriod(period) /\ timestamp.ok /\ CurrentStateKnown
        /\ timestamp.ms > DateGetTime(currentTs))
    => /\ ReturnedResult
       /\ result.sequenceNumber = latestSeq
       /\ result.warning # NoWarning
       /\ result.error # NoError
       /\ probed = <<>>

\* C4, amended: for every period and every target whose whole second (the
\* target floored to seconds) is strictly after the current state's, the call
\* returns the current sequence number and timestamp with a warning and an
\* error telling the whole minutes and the seconds (below 60) ahead, and
\* probes no numbered state file.
C4_LaterWholeSecond ==
    (Done /\ IsValidPeriod(period) /\ timestamp.ok /\ CurrentStateKnown
        /\ Epoch(timestamp.ms) > Epoch(DateGetTime(currentTs)))
    => /\ ReturnedResult
       /\ result.sequenceNumber = latestSeq
       /\ result.timestamp = currentTs
       /\ result.warning # NoWarning
       /\ result.error # NoError
       /\ result.seconds \in 0..59
       /\ result.minutes * 60 + result.seconds
            = Epoch(timestamp.ms) - Epoch(DateGetTime(currentTs))
       /\ probed = <<>>

\* C4's case: a target more than a minute ahead was answered
C4_Witness ==
    /\ Done /\ path = "future"
    /\ result.error # NoError
    /\ result.minutes > 0

----
Range(q) == {q[i] : i \in 1..Len(q)}

\* the numbered files whose fetch yielded their timestamp
Fetched == Range(probed) \ failed

\* C5: for period minute and a target at most 120 seconds before the current
\* state, the call scans downward from the current sequence number through at
\* most 5 prior ones and returns the first scanned state (the highest
\* numbered one whose fetch yielded a timestamp) at or before the target; if
\* there is none it returns the latest state with the "very recent" warning;
\* it never enters the binary search.
C5_NearPresentScan ==
    /\ (Done /\ period = "minute" /\ timestamp.ok /\ CurrentStateKnown
          /\ timestamp.ms <= DateGetTime(currentTs)
          /\ DateGetTime(currentTs) - timestamp.ms <= 120 * 1000)
       => path = "near"
    /\ path = "near"
       => /\ pc \in {"scan", "done"}
          /\ window0 = <<0, -1>>
          /\ Len(probed) <= 6
          /\ \A i \in 1..Len(probed) :
               probed[i] = latestSeq - (i - 1) /\ probed[i] >= 0
          /\ Done =>
               /\ ReturnedResult
               /\ result.error = NoError
               /\ IF Qualifying(Fetched) # {}
                  THEN /\ result.sequenceNumber = Greatest(Qualifying(Fetched))
                       /\ result.sequenceNumber = probed[Len(probed)]
                       /\ result.timestamp = stateTs[result.sequenceNumber]
                       /\ result.warning \in {WarnFound, WarnLatest}
                  ELSE /\ Range(probed) = Max(0, latestSeq - 5)..latestSeq
                       /\ result.sequenceNumber = latestSeq
                       /\ result.timestamp = currentTs
                       /\ result.warning = WarnVeryRecent

\* C5's case: the scan passed two later states and returned the third
C5_Witness ==
    /\ Done /\ path = "near" /\ failed = {}
    /\ result.sequenceNumber = latestSeq - 2
    /\ result.warning = WarnFound

----
\* the start of the period (hour or day) the current state lies in
CurrentPeriodStart == currentTs - (currentTs % Divider(period))

----
NoRepeat(q) == \A i, j \in 1..Len(q) : q[i] = q[j] => i = j

\* C7: every probe of the binary search that is followed by another one
\* leaves a window strictly inside the one before, which holds none of the
\* sequence numbers probed so far; no sequence number is probed twice.
C7_MonotonicWindow ==
    [][pc = "search" =>
         /\ NoRepeat(probed')
         /\ pc' = "search" =>
              /\ low <= low' /\ high' <= high
              /\ low < low' \/ high' < high
              /\ \A i \in 1..Len(probed) : probed[i] \notin low'..high']_vars

\* C7's case: a window narrowed by a failed probe and by comparisons
C7_Witness ==
    /\ pc = "search"
    /\ Len(probed) >= 4
    /\ failed # {}
    /\ Fetched # {}
    /\ low > window0[1]
    /\ high < window0[2]

----
RECURSIVE Log2Floor(_)
Log2Floor(n) == IF n <= 1 THEN 0 ELSE 1 + Log2Floor(n \div 2)

\* C8: as long as no fetch failed, the binary search has issued at most
\* floor(log2(high - low + 1)) + 1 probes for its initial window [low, high];
\* every turn of its loop issues one, so it ends.
C8_LogarithmicProbes ==
    (path = "general" /\ failed = {})
    => Len(probed) <= Log2Floor(window0[2] - window0[1] + 1) + 1

\* C8's case: a search without failures that used all its probes on a window
\* of at least 8 sequence numbers
C8_Witness ==
    /\ CleanSearch
    /\ window0[2] - window0[1] + 1 >= 8
    /\ Len(probed) = Log2Floor(window0[2] - window0[1] + 1) + 1

----
\* C9: once three probes in a row have failed, no further probe is issued
\* and the call has ended with the best candidate among the midpoints it
\* fetched (the latest one at or before the target), or with NoSuitableState
\* if there is none.
C9_StopAfterThreeFailures ==
    \A i \in 1..(Len(probed) - 2) :
        (path = "general" /\ {probed[i], probed[i + 1], probed[i + 2]} \subseteq failed)
        => /\ Len(probed) = i + 2
           /\ Done
           /\ IF Qualifying(Fetched) = {}
              THEN result = Thrown(NoSuitableState)
              ELSE /\ result.status = "returned"
                   /\ result.sequenceNumber \in Qualifying(Fetched)
                   /\ result.timestamp = stateTs[result.sequenceNumber]
                   /\ \A c \in Qualifying(Fetched) :
                        stateTs[c] <= result.timestamp

\* C9's case: three failures in a row after a candidate had been recorded
C9_Witness ==
    /\ Done /\ path = "general"
    /\ Len(probed) >= 4
    /\ \A k \in 0..2 : probed[Len(probed) - k] \in failed
    /\ result.status = "returned"

----
\* C10: a period outside minute, hour and day makes the call throw
\* InvalidPeriod, and (the period being valid) a timestamp that does not parse
\* makes it throw InvalidTimestamp; either way no fetch of state.txt or of a
\* numbered state file has been issued.
C10_ValidationBeforeNetwork ==
    /\ (period \notin {"minute", "hour", "day"} /\ pc # "start")
       => /\ ThrownWith(InvalidPeriod)
          /\ currentFetches = 0 /\ probed = <<>>
    /\ (period \in {"minute", "hour", "day"} /\ ~timestamp.ok /\ pc # "start")
       => /\ ThrownWith(InvalidTimestamp)
          /\ currentFetches = 0 /\ probed = <<>>

\* C10's case: a call refused for its period, without any fetch
C10_Witness ==
    /\ ThrownWith(InvalidPeriod)
    /\ period = "week"
    /\ currentFetches = 0

\* ---------------------------------------------------------------------------
\* C11: when the fetch of the current sequenceNumber or of the current
\* timestamp from state.txt yields absent, the call has thrown 'Failed to get
\* current state' as soon as the second fetch has resolved, and it has
\* requested no numbered state file.
C11_CurrentStateUnavailable ==
    (/\ pc \notin {"start", "fetchSeq", "fetchTs"}
     /\ currentFetches = 2
     /\ (latestSeq = Absent \/ currentTs = Absent))
        => /\ ThrownWith(CurrentStateUnavailable)
           /\ probed = <<>>

\* the sequence number was read, the timestamp was not: the call has thrown
C11_Witness ==
    /\ Done
    /\ latestSeq # Absent
    /\ currentTs = Absent
    /\ ThrownWith(CurrentStateUnavailable)
    /\ probed = <<>>

\* ---------------------------------------------------------------------------
\* C12: in the general case the call fails with 'No suitable state file found'
\* exactly when no midpoint whose fetch yielded a timestamp was at or before
\* the target; otherwise it returns one of those midpoints, with that
\* midpoint's timestamp, which is at or before the target.
C12_NoSuitableStateExactly ==
    (Done /\ path = "general") =>
        IF Qualifying(Fetched) = {}
        THEN ThrownWith(NoSuitableState)
        ELSE /\ ReturnedResult
             /\ result.sequenceNumber \in Qualifying(Fetched)
             /\ result.timestamp = stateTs[result.sequenceNumber]
             /\ DateGetTime(result.timestamp) <= timestamp.ms

\* the timestamps are out of order, a midpoint after the target was fetched
\* above the returned one and one at or before the target was found
C12_Witness ==
    /\ ReturnedResult
    /\ path = "general"
    /\ ~NonDecreasing(0..latestSeq)
    /\ \E s \in Fetched : ~AtOrBefore(s)
    /\ result.sequenceNumber \in Qualifying(Fetched)

\* every fetched midpoint was after the target: the call throws
C12_WitnessNone ==
    /\ ThrownWith(NoSuitableState)
    /\ Fetched # {}
    /\ Qualifying(Fetched) = {}

\* ---------------------------------------------------------------------------
\* C13: a result that carries an error names a state that exists upstream:
\* its sequence number is one of the published files and its timestamp is
\* that file's timestamp.
C13_FallbackStateExists ==
    (ReturnedResult /\ result.error # NoError) =>
        /\ result.sequenceNumber \in DOMAIN stateTs
        /\ result.timestamp = stateTs[result.sequenceNumber]

\* ---------------------------------------------------------------------------
\* C14: whatever way its attempts fail, fetchStateParam makes at most
\* `retries` attempts, waits delay * 2^attempt after the failed attempt
\* number `attempt` when another one follows, returns null once `retries`
\* attempts have failed, and ends in a returned value or null, never in an
\* exception.
C14_RetryBudget ==
    /\ attempt < retries
    /\ failures <= retries
    /\ attempt <= failures
    /\ Len(waits) = (IF failures < retries THEN failures ELSE retries - 1)
    /\ \A i \in 1..Len(waits) : waits[i] = delay * (2 ^ (i - 1))
    /\ (fpc \in {"loop", "awaiting"}) => attempt = failures
    /\ fpc = "sleeping" => attempt = failures - 1
    /\ failures = retries => fpc = "returned" /\ fvalue = "null"
    /\ fpc = "returned" <=> fvalue \in {"value", "null"}

\* every attempt of a call with five attempts has failed, one of them after
\* following redirects
C14_Witness ==
    /\ retries = 5
    /\ failures = retries
    /\ Len(waits) = 4
    /\ gets >= retries + RedirectBudget - 1
    /\ fpc = "returned"
    /\ fvalue = "null"

\* ---------------------------------------------------------------------------
\* C15: a 429 response sets a timer for the same URL with the same redirect
\* budget, and from that response until the timer has re-requested the URL
\* the attempt is not used up: the call stays in the same attempt, no failure
\* is counted, and the re-request goes to the same URL with the same budget.
C15_RateLimitKeepsBudget ==
    [][/\ Respond429 =>
            /\ chain'.kind = "timer"
            /\ chain'.url = chain.url
            /\ chain'.maxRedirects = chain.maxRedirects
            /\ attempt' = attempt
            /\ failures' = failures
       /\ (fpc = "awaiting" /\ chain.kind = "timer") =>
            /\ fpc' = "awaiting"
            /\ attempt' = attempt
            /\ failures' = failures
            /\ chain'.kind \in {"timer", "request"}
            /\ chain'.url = chain.url
            /\ chain'.maxRedirects = chain.maxRedirects]_vars

\* ---------------------------------------------------------------------------
\* C16: a call issues no more requests than its attempts and their redirect
\* budgets allow: at most RedirectBudget GETs in each of `retries` attempts.
C16_BoundedRequests ==
    gets <= retries * RedirectBudget

\* ---------------------------------------------------------------------------
\* C18: a 301 or 302 response that is not the fifth redirect of its attempt
\* is followed by a GET of the Location target with one redirect less to
\* spend; the fifth one issues no GET and fails the attempt with 'Too many
\* redirects'.
C18_FifthRedirectAborts ==
    [][RespondRedirect =>
          IF chain.url + 1 < 5
          THEN /\ chain' = Get(chain.url + 1, chain.maxRedirects - 1)
               /\ gets' = gets + 1
               /\ fpc' = "awaiting"
               /\ failures' = failures
          ELSE /\ chain'.kind = "none"
               /\ gets' = gets
               /\ fpc' \in {"sleeping", "returned"}
               /\ failures' = failures + 1
               /\ lastError' = "Too many redirects"]_vars

\* the first attempt has issued five GETs, each answered by a redirect, and
\* has failed with 'Too many redirects'
C18_Witness ==
    /\ attempt = 0
    /\ fpc = "sleeping"
    /\ lastError = "Too many redirects"
    /\ gets = 5
    /\ rateLimited = 0

\* ---------------------------------------------------------------------------
\* C19: at most one request or rate-limit timer of the call is outstanding.
C19_OneOutstanding ==
    strayRequests + strayTimers + (IF chain.kind = "none" THEN 0 ELSE 1) <= 1

\* ---------------------------------------------------------------------------
\* how far the call has come: the stages before the loops, the loops, the exit
Stage ==
    CASE pc = "start" -> 4
      [] pc = "fetchSeq" -> 3
      [] pc = "fetchTs" -> 2
      [] pc \in {"scan", "search"} -> 1
      [] OTHER -> 0

\* what is left of the loop the call is in: the sequence numbers still to
\* scan below the one being fetched, or the window around the midpoint being
\* fetched
Remaining ==
    CASE pc = "scan" -> seq - ScanFloor(latestSeq)
      [] pc = "search" -> high - low
      [] OTHER -> 0

\* the exits of findStateFile: a clean result, a degraded result, one of the
\* four errors
DefinedExit ==
    \/ /\ result.status = "returned"
       /\ result.warning = NoWarning
       /\ result.error = NoError
    \/ /\ result.status = "returned"
       /\ result.warning \in {WarnFuture, WarnFound, WarnLatest, WarnVeryRecent,
                              WarnCurrentPeriod}
       /\ result.error \in {NoError, ErrFuture}
    \/ /\ result.status = "thrown"
       /\ result.thrown \in {InvalidPeriod, InvalidTimestamp,
                             CurrentStateUnavailable, NoSuitableState}

\* C17: a started call that has not reached an exit always has a fetch whose
\* return lets it go on; every return of a fetch, value or null, brings the
\* call to a later stage or leaves less of the loop it is in, so the call
\* cannot go on for ever; and where it ends is one of its defined exits.
C17_ReachesExit ==
    /\ [](Done \/ ENABLED Next)
    /\ [](Done => DefinedExit)
    /\ [][\/ Publish
          \/ Stage' < Stage
          \/ (Stage' = Stage /\ Remaining' < Remaining /\ Remaining' >= 0)]_vars

\* a search over unordered timestamps that lost a fetch, went through its
\* loop at least three times and then reached an exit
C17_Witness ==
    /\ Done
    /\ path = "general"
    /\ DefinedExit
    /\ ~NonDecreasing(0..latestSeq)
    /\ failed # {}
    /\ Len(probed) >= 3

\* ---------------------------------------------------------------------------
\* the invocation c run on its own to its return or throw
RECURSIVE Alone(_)
Alone(c) == IF c.pc = "done" THEN c ELSE Alone(CallStep(c, Yield(c)))

DigitAt(n, k) == DigitChar[((n \div (10 ^ k)) % 10) + 1]

\* the groups of three digits of a number below 10^9 and the suffix
NumericPath(n) ==
    <<"/", DigitAt(n, 8), DigitAt(n, 7), DigitAt(n, 6),
      "/", DigitAt(n, 5), DigitAt(n, 4), DigitAt(n, 3),
      "/", DigitAt(n, 2), DigitAt(n, 1), DigitAt(n, 0), ".state.txt">>

\* C21: for a sequence number of at most 9 digits getStateUrl returns the
\* base URL without its trailing slash, then '/<period>' exactly when
\* likeOsm is true, then the 9 zero-padded digits in groups of 3 + 3 + 3
\* joined by '/', then '.state.txt'; and another sequence number below 10^9
\* gives another URL.
C21_StateUrlFormat ==
    (urlCall # <<>> /\ urlCall.url # <<>> /\ urlCall.seq < 10 ^ 9) =>
        /\ urlCall.url =
              StripSlash(urlCall.baseUrl)
                \o (IF urlCall.likeOsm THEN <<"/", urlCall.period>> ELSE <<>>)
                \o NumericPath(urlCall.seq)
        /\ \A t \in UrlSeqs :
              (t < 10 ^ 9 /\ t # urlCall.seq) =>
                  getStateUrl(urlCall.baseUrl, urlCall.period, t,
                              urlCall.likeOsm) # urlCall.url

\* the README's example: 6600442 gives minute/006/600/442.state.txt
C21_Witness ==
    /\ urlCall # <<>>
    /\ urlCall.seq = 6600442
    /\ urlCall.period = "minute"
    /\ urlCall.likeOsm
    /\ urlCall.baseUrl = <<"h", "o", "s", "t", "/">>
    /\ urlCall.url = <<"h", "o", "s", "t", "/", "minute",
                       "/", "0", "0", "6", "/", "6", "0", "0",
                       "/", "4", "4", "2", ".state.txt">>

\* ---------------------------------------------------------------------------
Sent == response # <<>> /\ response.stage = "sent"

\* C22: when findStateFile has returned a result with an error, the
\* response has a status other than 200 and carries the url, timestamp and
\* sequence number of the result together with its error, whatever
\* fetchContent is.
C22_DegradedIsNot200 ==
    (Sent /\ result.status = "returned" /\ result.error # NoError) =>
        /\ response.status # 200
        /\ response.hasState
        /\ response.sequenceNumber = result.sequenceNumber
        /\ response.timestamp = result.timestamp
        /\ response.error = result.error

Elapsed == Epoch(DateGetTime(currentTs)) - targetEpoch

Searched == path = "general" /\ window0 # <<0, -1>>

\* C24, as claimed: the lower bound of the initial window of the binary
\* search is max(0, latestSeq - floor(elapsed / periodSeconds) - 1).
C24_FloorOfElapsed ==
    Searched =>
        window0[1] = Max(0, latestSeq - (Elapsed \div Divider(period)) - 1)

\* C24, amended: the lower bound of the initial window is
\* max(0, latestSeq - ceil(elapsed / periodSeconds) - 1), the upper bound is
\* latestSeq; the lower bound equals the claimed one when the elapsed time
\* is a multiple of periodSeconds and is one less (or 0) when it is not.
C24_CeilOfElapsed ==
    Searched =>
        /\ window0[1] = Max(0, latestSeq - CeilDiv(Elapsed, Divider(period)) - 1)
        /\ window0[2] = latestSeq
        /\ Elapsed % Divider(period) = 0 =>
              window0[1] = Max(0, latestSeq - (Elapsed \div Divider(period)) - 1)
        /\ Elapsed % Divider(period) # 0 =>
              window0[1] = Max(0, latestSeq - (Elapsed \div Divider(period)) - 2)

\* a search whose target lies a period and a half before the current state
\* starts two sequence numbers below the step the claimed bound names
C24_Witness ==
    /\ Searched
    /\ Elapsed % Divider(period) # 0
    /\ window0[1] > 0
    /\ window0[1] = latestSeq - (Elapsed \div Divider(period)) - 2

\* ---------------------------------------------------------------------------
\* the midpoints fetched so far whose timestamp is not after the target
Outstanding ==
    IF pc = "search" /\ probed # <<>> THEN {probed[Len(probed)]} ELSE {}

Candidates == Qualifying(Fetched \ Outstanding)

\* C25: at every point of the binary search the accumulator holds a
\* midpoint fetched so far with the latest timestamp not after the target,
\* with that timestamp and its distance to the target, and holds nothing
\* (bestSeq = -1) exactly when no fetched midpoint is at or before the
\* target, wherever the window stands.
C25_Accumulator ==
    path = "general" =>
        IF Candidates = {}
        THEN bestSeq = -1 /\ bestTs = Absent /\ bestDiff = Infinity
        ELSE /\ bestSeq \in Candidates
             /\ bestTs = stateTs[bestSeq]
             /\ bestDiff = targetEpoch - Epoch(DateGetTime(bestTs))
             /\ bestDiff >= 0
             /\ \A s \in Candidates : stateTs[s] <= bestTs

\* the search goes on after a failed fetch, with two candidates fetched of
\* which the later fetched is the better, a fetched midpoint after the
\* target, and the candidate held outside the window
C25_Witness ==
    /\ pc = "search"
    /\ path = "general"
    /\ failed # {}
    /\ Cardinality(Candidates) >= 2
    /\ \E s \in Candidates : stateTs[s] < bestTs
    /\ (Fetched \ Outstanding) # Candidates
    /\ bestSeq \notin low..high

\* ---------------------------------------------------------------------------
\* the cap of the delay of a midpoint fetch, in milliseconds (line 238)
ProbeDelayCap == 5000

\* the retries of the fetch of a midpoint (line 239)
ProbeRetries == 3

\* C26: every wait between two attempts of the fetch of a midpoint of the
\* binary search is at most 5000 ms.
C26_ProbeWaitsCapped ==
    retries = ProbeRetries =>
        \A i \in 1..Len(waits) : waits[i] <= ProbeDelayCap

\* ---------------------------------------------------------------------------
\* C27: the timer set on a 429 response waits the seconds of the
\* Retry-After header when there is one, and otherwise the time the retry
\* loop waits at this attempt.
C27_RateLimitWait ==
    (fpc = "awaiting" /\ chain.kind = "timer") =>
        \/ chain.wait \in {1000 * h : h \in RetryAfterHeaders \ {Absent}}
        \/ chain.wait = WaitTime(delay, attempt)

\* ---------------------------------------------------------------------------
\* C28: the 200 response settles the call at once, with the value or, when
\* the body has no line for the field, with null: the step counts no failed
\* attempt, waits nothing and issues no request, and the call that has
\* returned starts no attempt, wakes from no wait and fires no timer of its
\* pending request.
C28_AbsentAtOnce ==
    /\ [][Respond200 =>
             /\ fpc' = "returned"
             /\ fvalue' \in {"value", "null"}
             /\ failures' = failures
             /\ waits' = waits
             /\ gets' = gets
             /\ attempt' = attempt]_vars
    /\ [](fpc = "returned" =>
             /\ chain.kind # "timer"
             /\ ~ENABLED Attempt
             /\ ~ENABLED Wake
             /\ ~ENABLED TimerFires
             /\ ~ENABLED Respond200)
    /\ [][fpc = "returned" =>
             /\ fpc' = "returned"
             /\ fvalue' = fvalue
             /\ failures' = failures
             /\ waits' = waits
             /\ attempt' = attempt]_vars

\* the call has returned null after one failed attempt although attempts
\* were left: the second attempt's 200 response had no line for the field
C28_Witness ==
    /\ fpc = "returned"
    /\ fvalue = "null"
    /\ MoreAttempts(attempt, retries)
    /\ failures = 1
    /\ Len(waits) = 1
    /\ gets = 2

\* ---------------------------------------------------------------------------
\* C29: a result of the binary search carries neither warning nor error,
\* every result of the future, near-present and current-period cases
\* carries its warning (the future one its error as well): a returned result
\* is free of warnings exactly when the binary search produced it.
C29_WarningUnlessSearched ==
    ReturnedResult =>
        /\ path \in {"future", "near", "current", "general"}
        /\ path = "general" =>
              result.warning = NoWarning /\ result.error = NoError
        /\ path = "future" =>
              result.warning = WarnFuture /\ result.error = ErrFuture
        /\ path = "near" =>
              /\ result.warning \in {WarnFound, WarnLatest, WarnVeryRecent}
              /\ result.error = NoError
        /\ path = "current" =>
              result.warning = WarnCurrentPeriod /\ result.error = NoError
        /\ (result.warning = NoWarning) <=> (path = "general")

\* a search over out-of-order timestamps with a failed fetch has returned a
\* state older than the latest without warning or error
C29_Witness ==
    /\ ReturnedResult
    /\ path = "general"
    /\ failed # {}
    /\ ~NonDecreasing(0..latestSeq)
    /\ result.sequenceNumber < latestSeq
    /\ result.warning = NoWarning
    /\ result.error = NoError

\* ---------------------------------------------------------------------------
\* the sequence number s and the timestamp ts stood together in one
\* published version of state.txt
PublishedTogether(s, ts) == s \in DOMAIN stateTs /\ stateTs[s] = ts

\* C30: the sequence number and the timestamp taken as the current state
\* come from one published version of state.txt, and so does the pair that
\* a future or current-period result returns.
C30_OneVersion ==
    /\ (pc \notin {"start", "fetchSeq", "fetchTs"} /\ CurrentStateKnown)
          => PublishedTogether(latestSeq, currentTs)
    /\ (ReturnedResult /\ path \in {"future", "current"})
          => PublishedTogether(result.sequenceNumber, result.timestamp)

\* ---------------------------------------------------------------------------
\* C31: every numbered state file the call probes, in the scan or in the
\* search, and every sequence number it returns lies in 0..latestSeq; the
\* window of the search never reaches below 0 or above latestSeq, also
\* after a failed probe has moved its upper bound down.
C31_ProbesInRange ==
    /\ \A i \in 1..Len(probed) : probed[i] \in 0..latestSeq
    /\ pc = "search" => (0 <= low /\ low <= high /\ high <= latestSeq)
    /\ pc = "scan" => seq \in 0..latestSeq
    /\ ReturnedResult => result.sequenceNumber \in 0..latestSeq

\* a search whose estimate lay below 0 started at 0, lost a probe, moved
\* its upper bound down and went on to probe file 0
C31_Witness ==
    /\ path = "general"
    /\ TargetSequenceNumber(latestSeq, Epoch(DateGetTime(currentTs)),
                            targetEpoch, Divider(period)) < 0
    /\ window0[1] = 0
    /\ failed # {}
    /\ Len(probed) >= 2
    /\ probed[Len(probed)] = 0
    /\ probed[Len(probed)] \notin failed

\* ---------------------------------------------------------------------------
\* the timestamp of the result is later than the target
AfterTarget == DateGetTime(result.timestamp) > timestamp.ms

\* C32: a returned result whose timestamp is later than the target carries
\* a warning: the results without warning and the results the backward
\* scan found have a timestamp at or before the target (the latter also to
\* the second the code compares by), and a result after the target is the
\* current state under the very-recent or current-period warning.
C32_LaterOnlyWithWarning ==
    ReturnedResult =>
        /\ AfterTarget => result.warning # NoWarning
        /\ result.warning = NoWarning => ~AfterTarget
        /\ result.warning \in {WarnFound, WarnLatest} =>
              /\ ~AfterTarget
              /\ Epoch(DateGetTime(result.timestamp)) <= targetEpoch
        /\ AfterTarget =>
              /\ result.warning \in {WarnVeryRecent, WarnCurrentPeriod}
              /\ result.timestamp = currentTs

\* the scan over out-of-order timestamps passed a state later than the
\* target and returned an earlier file whose timestamp is before the target
C32_Witness ==
    /\ ReturnedResult
    /\ path = "near"
    /\ result.warning = WarnFound
    /\ ~NonDecreasing(0..latestSeq)
    /\ Len(probed) >= 2
    /\ \E s \in Fetched : DateGetTime(stateTs[s]) > timestamp.ms
    /\ DateGetTime(result.timestamp) < timestamp.ms

\* the current state, later than the target, was returned under the
\* very-recent warning after the scan found no state at or before the target
C32_WitnessLater ==
    /\ ReturnedResult
    /\ AfterTarget
    /\ result.warning = WarnVeryRecent
    /\ Fetched # {}

====
